---- MODULE Spec2Model ----
(***************************************************************************)
(* Model of doc2md.py, a docstring to GitHub-flavoured-Markdown converter. *)
(*                                                                         *)
(* A Python str is modelled as a sequence of one-character strings, so     *)
(* that slicing, stripping, prefix tests, splitting and joining are        *)
(* computed character by character as the code computes them.  A list of   *)
(* lines is a sequence of such sequences.                                  *)
(*                                                                         *)
(* The alphabet is ASCII and the Latin-1 Supplement (code points up to     *)
(* U+00FF).  A character that cannot be written in a TLA+ string literal   *)
(* is an atom named by its code point, "<U+00C9>" for U+00C9; the grave    *)
(* accent is the atom BQ.  Characters beyond U+00FF are outside the model. *)
(***************************************************************************)
EXTENDS Integers, Sequences, FiniteSets, TLC

(***************************************************************************)
(* Bounds of the model.                                                    *)
(***************************************************************************)
MaxLines == 3
MaxDocLines == 3
MaxBlock == 3
MaxToc == 2

(***************************************************************************)
(* Python str primitives used by the module.                               *)
(***************************************************************************)
\* The characters str.strip()/str.lstrip() remove when called without argument
\* (str.isspace): U+0009..U+000D, U+001C..U+001F, U+0020, U+0085, U+00A0.
IsSpace(c) ==
    c \in {" ", "\t", "\n", "\r", "\f", "<U+000B>",
           "<U+001C>", "<U+001D>", "<U+001E>", "<U+001F>", "<U+0085>", "<U+00A0>"}

\* s[n:]
Drop(s, n) == IF n >= Len(s) THEN <<>> ELSE SubSeq(s, n + 1, Len(s))

\* s[:n]
Take(s, n) == IF n >= Len(s) THEN s ELSE SubSeq(s, 1, n)

\* s.startswith(p)
startswith(s, p) == Len(s) >= Len(p) /\ SubSeq(s, 1, Len(p)) = p

RECURSIVE lstrip(_)
lstrip(s) == IF s # <<>> /\ IsSpace(Head(s)) THEN lstrip(Tail(s)) ELSE s

RECURSIVE rstrip(_)
rstrip(s) ==
    IF s # <<>> /\ IsSpace(s[Len(s)]) THEN rstrip(SubSeq(s, 1, Len(s) - 1)) ELSE s

strip(s) == rstrip(lstrip(s))

\* The cased letters of the alphabet: A-Z, U+00C0..U+00D6 and U+00D8..U+00DE,
\* each lower-cased to the single character 32 code points above it.
UpperCase == <<"A", "B", "C", "D", "E", "F", "G", "H", "I", "J", "K", "L", "M",
               "N", "O", "P", "Q", "R", "S", "T", "U", "V", "W", "X", "Y", "Z",
               "<U+00C0>", "<U+00C1>", "<U+00C2>", "<U+00C3>", "<U+00C4>", "<U+00C5>",
               "<U+00C6>", "<U+00C7>", "<U+00C8>", "<U+00C9>", "<U+00CA>", "<U+00CB>",
               "<U+00CC>", "<U+00CD>", "<U+00CE>", "<U+00CF>", "<U+00D0>", "<U+00D1>",
               "<U+00D2>", "<U+00D3>", "<U+00D4>", "<U+00D5>", "<U+00D6>", "<U+00D8>",
               "<U+00D9>", "<U+00DA>", "<U+00DB>", "<U+00DC>", "<U+00DD>", "<U+00DE>">>
LowerCase == <<"a", "b", "c", "d", "e", "f", "g", "h", "i", "j", "k", "l", "m",
               "n", "o", "p", "q", "r", "s", "t", "u", "v", "w", "x", "y", "z",
               "<U+00E0>", "<U+00E1>", "<U+00E2>", "<U+00E3>", "<U+00E4>", "<U+00E5>",
               "<U+00E6>", "<U+00E7>", "<U+00E8>", "<U+00E9>", "<U+00EA>", "<U+00EB>",
               "<U+00EC>", "<U+00ED>", "<U+00EE>", "<U+00EF>", "<U+00F0>", "<U+00F1>",
               "<U+00F2>", "<U+00F3>", "<U+00F4>", "<U+00F5>", "<U+00F6>", "<U+00F8>",
               "<U+00F9>", "<U+00FA>", "<U+00FB>", "<U+00FC>", "<U+00FD>", "<U+00FE>">>

LowerChar(c) ==
    IF \E k \in 1..Len(UpperCase) : UpperCase[k] = c
    THEN LowerCase[CHOOSE k \in 1..Len(UpperCase) : UpperCase[k] = c]
    ELSE c

\* s.lower()
lower(s) == [k \in 1..Len(s) |-> LowerChar(s[k])]

\* s.replace(old, new) for a one-character old and a new of length 0 or 1
RECURSIVE replace(_, _, _)
replace(s, old, new) ==
    IF s = <<>> THEN <<>>
    ELSE (IF Head(s) = old THEN new ELSE <<Head(s)>>) \o replace(Tail(s), old, new)

\* s * n
RECURSIVE repeat(_, _)
repeat(s, n) == IF n <= 0 THEN <<>> ELSE s \o repeat(s, n - 1)

\* text.split('\n'): always at least one field
RECURSIVE split(_)
split(text) ==
    IF \A k \in 1..Len(text) : text[k] # "\n" THEN <<text>>
    ELSE LET p == CHOOSE k \in 1..Len(text) :
                      text[k] = "\n" /\ \A j \in 1..(k - 1) : text[j] # "\n"
         IN  <<Take(text, p - 1)>> \o split(Drop(text, p))

\* "\n".join(ls)
RECURSIVE join(_)
join(ls) ==
    IF ls = <<>> THEN <<>>
    ELSE IF Len(ls) = 1 THEN ls[1]
    ELSE ls[1] \o <<"\n">> \o join(Tail(ls))

\* str.expandtabs(): a tab runs to the next multiple of 8 columns, the column
\* count restarting after a line break
RECURSIVE expandtabsFrom(_, _)
expandtabsFrom(s, col) ==
    IF s = <<>> THEN <<>>
    ELSE IF Head(s) = "\t"
         THEN repeat(<<" ">>, 8 - (col % 8)) \o expandtabsFrom(Tail(s), 0)
    ELSE IF Head(s) \in {"\n", "\r"}
         THEN <<Head(s)>> \o expandtabsFrom(Tail(s), 0)
    ELSE <<Head(s)>> \o expandtabsFrom(Tail(s), col + 1)

expandtabs(s) == expandtabsFrom(s, 0)

\* len(line) - len(line.lstrip())
Indentation(line) == Len(line) - Len(lstrip(line))

\* min() of a non-empty set of integers
Min(S) == CHOOSE m \in S : \A n \in S : m <= n

RECURSIVE DropLeadingEmpty(_)
DropLeadingEmpty(ls) ==
    IF ls # <<>> /\ Head(ls) = <<>> THEN DropLeadingEmpty(Tail(ls)) ELSE ls

RECURSIVE DropTrailingEmpty(_)
DropTrailingEmpty(ls) ==
    IF ls # <<>> /\ ls[Len(ls)] = <<>>
    THEN DropTrailingEmpty(SubSeq(ls, 1, Len(ls) - 1))
    ELSE ls

(***************************************************************************)
(* Module constants.                                                       *)
(***************************************************************************)
SECTIONS == {
    <<"A", "r", "g", "s", ":">>,
    <<"A", "t", "t", "r", "i", "b", "u", "t", "e", "s", ":">>,
    <<"R", "e", "t", "u", "r", "n", "s", ":">>,
    <<"R", "a", "i", "s", "e", "s", ":">>,
    <<"N", "o", "t", "e", "s", ":">>,
    <<"E", "x", "a", "m", "p", "l", "e", "s", ":">> }

INDENT == <<" ", " ", " ", " ">>
NEW_LINE == <<>>
LINK_PRE == <<"<", "a", " ", "n", "a", "m", "e", "=", "\"">>
LINK_POST == <<"\"", ">", "<", "/", "a", ">">>

CLASS_NAME == 2
FUNCTION_NAME == 3
SECTION_NAME == 4

PyPrompt == <<">", ">", ">", " ">>
PyCont == <<".", ".", ".", " ">>
PyPromptBare == <<">", ">", ">">>
PyContBare == <<".", ".", ".">>
ShPrompt == <<"$", " ">>
\* The grave accent cannot be written inside a TLA+ string literal: the
\* character is the atom BQ.
BQ == "<grave>"
Fence == <<BQ, BQ, BQ>>
python == <<"p", "y", "t", "h", "o", "n">>
bash == <<"b", "a", "s", "h">>

(***************************************************************************)
(* doctrim = inspect.cleandoc                                              *)
(***************************************************************************)
doctrim(doc) ==
    LET ls0    == split(expandtabs(doc))
        rest   == { k \in 2..Len(ls0) : Len(lstrip(ls0[k])) # 0 }
        hasMargin == rest # {}
        margin == IF hasMargin THEN Min({ Indentation(ls0[k]) : k \in rest }) ELSE 0
        ls1    == [k \in 1..Len(ls0) |->
                      IF k = 1 THEN lstrip(ls0[1])
                      ELSE IF hasMargin THEN Drop(ls0[k], margin)
                      ELSE ls0[k]]
    IN  join(DropLeadingEmpty(DropTrailingEmpty(ls1)))

(***************************************************************************)
(* unindent: remove the common indentation of a block.                     *)
(***************************************************************************)
\* (fault) the minimum is taken over every line, the empty ones included
unindent_CountEmpty(block) ==
    IF block = <<>> THEN block
    ELSE LET indent == Min({ Indentation(block[k]) : k \in 1..Len(block) })
         IN  [k \in 1..Len(block) |-> Drop(block[k], indent)]

unindent(block) ==
    LET nonEmpty == { k \in 1..Len(block) : block[k] # <<>> }
    IN  IF nonEmpty = {} THEN block
        ELSE LET indent == Min({ Indentation(block[k]) : k \in nonEmpty })
             IN  [k \in 1..Len(block) |-> Drop(block[k], indent)]

\* (fault) the closing fence is left out
code_block_Unclosed(block, lang) == <<Fence \o lang>> \o block

code_block(block, lang) == <<Fence \o lang>> \o block \o <<Fence>>

\* the test of the loop of doctest2md, for one line
IsPromptLine(line) ==
    \/ startswith(line, PyPrompt)
    \/ startswith(line, PyCont)
    \/ line \in {PyPromptBare, PyContBare}

\* (fault) each prompted line loses its prompt, whatever the other lines are
doctest2md_PerLine(block) ==
    LET ls == unindent(block)
    IN  [k \in 1..Len(ls) |-> IF IsPromptLine(ls[k]) THEN Drop(ls[k], 4) ELSE ls[k]]

\* (fault) the block is tested and stripped without being unindented first
doctest2md_NoTrim(block) ==
    IF \A k \in 1..Len(block) : IsPromptLine(block[k])
    THEN [k \in 1..Len(block) |-> Drop(block[k], 4)]
    ELSE block

doctest2md(block) ==
    LET ls == unindent(block)
        is_only_code == \A k \in 1..Len(ls) : IsPromptLine(ls[k])
    IN  IF is_only_code THEN [k \in 1..Len(ls) |-> Drop(ls[k], 4)] ELSE ls

doc_code_block(block, lang) ==
    IF lang = python THEN code_block(doctest2md(block), lang)
    ELSE code_block(block, lang)

make_heading(level, title) ==
    repeat(<<"#">>, IF level > 1 THEN level ELSE 1) \o <<" ">> \o title

\* (fault) a line that merely starts with a label counts as a section
_is_class_section_Prefix(line) ==
    IF \E label \in SECTIONS : startswith(strip(line), label) THEN SECTION_NAME ELSE 0

_is_class_section(line) == IF strip(line) \in SECTIONS THEN SECTION_NAME ELSE 0

\* (fault) the label test is made on the line as it is, not stripped
RECURSIVE _get_class_intro_Unstripped(_)
_get_class_intro_Unstripped(ls) ==
    IF ls = <<>> \/ Head(ls) \in SECTIONS THEN <<(<<>>), ls>>
    ELSE LET r == _get_class_intro_Unstripped(Tail(ls))
         IN  <<(<<Head(ls) \o NEW_LINE>>) \o r[1], r[2]>>

\* _get_class_intro: <<intro, contents>>
RECURSIVE _get_class_intro(_)
_get_class_intro(ls) ==
    IF ls = <<>> \/ strip(Head(ls)) \in SECTIONS THEN <<(<<>>), ls>>
    ELSE LET r == _get_class_intro(Tail(ls))
         IN  <<(<<Head(ls) \o NEW_LINE>>) \o r[1], r[2]>>

(***************************************************************************)
(* Python values crossing the API: None, an int or a str.                  *)
(***************************************************************************)
None == [t |-> "None", n |-> 0, s |-> <<>>]
PyInt(k) == [t |-> "int", n |-> k, s |-> <<>>]
PyStr(x) == [t |-> "str", n |-> 0, s |-> x]

\* What a call returned or raised.
NoRet == [kind |-> "none", err |-> "", lines |-> <<>>, text |-> <<>>]
RetList(ls) == [kind |-> "list", err |-> "", lines |-> ls, text |-> <<>>]
RetStr(x) == [kind |-> "str", err |-> "", lines |-> <<>>, text |-> x]
Raise(e) == [kind |-> "error", err |-> e, lines |-> <<>>, text |-> <<>>]

(***************************************************************************)
(* make_toc.  The loop header "for sec, ind in sections" binds sec to the  *)
(* first and ind to the second component of each pair; sec.lower() raises  *)
(* AttributeError on an int, INDENT*(ind) raises TypeError on a str.       *)
(***************************************************************************)
toc_ref(sec) == replace(replace(lower(sec), " ", <<"-">>), "?", <<>>)

toc_line(sec, ind) ==
    repeat(INDENT, ind) \o <<"-", " ", "[">> \o sec \o <<"]", "(", "#">>
        \o toc_ref(sec) \o <<")">>

make_toc(sections) ==
    IF sections = <<>> THEN RetList(<<>>)
    ELSE IF \E k \in 1..Len(sections) :
                sections[k][1].t # "str" \/ sections[k][2].t # "int"
    THEN LET bad == Min({ k \in 1..Len(sections) :
                            sections[k][1].t # "str" \/ sections[k][2].t # "int" })
         IN  IF sections[bad][1].t # "str" THEN Raise("AttributeError")
             ELSE Raise("TypeError")
    ELSE RetStr(join([k \in 1..Len(sections) |->
                        toc_line(sections[k][1].s, sections[k][2].n)]))

(***************************************************************************)
(* Inputs.                                                                 *)
(***************************************************************************)
SeqUpTo(S, n) == UNION { [1..k -> S] : k \in 0..n }

\* Lines offered to the body scan.
LinePool == {
    <<>>,
    <<"A", "r", "g", "s", ":">>,
    <<"\f", "N", "o", "t", "e", "s", ":", " ">>,
    <<"a", "r", "g", "s", ":">>,
    <<"A", "r", "g", "s", ":", " ", "x">>,
    <<">", ">", ">", " ", "a">>,
    <<" ", " ", ">", ">", ">", " ", "a">>,
    <<".", ".", ".", " ", "b">>,
    <<">", ">", ">">>,
    <<"$", " ", "l", "s">>,
    <<" ", " ", "b">>,
    <<" ", " ">>,
    Fence }

\* Lines the generated docstrings are made of.
DocLinePool == {
    <<>>,
    <<"A", "r", "g", "s", ":">>,
    <<" ", "\f", "R", "e", "t", "u", "r", "n", "s", ":">>,
    <<">", ">", ">", " ", "a">>,
    <<" ", " ", "$", " ", "l", "s">>,
    <<"x">>,
    <<" ", " ", " ", " ", "b">>,
    <<"\t", "c">> }

\* The docstring of the end-to-end scenario.
ScenarioDoc ==
    <<"D", "o", "e", "s", " ", "X", ".", "\n", "\n", "A", "r", "g", "s", ":", "\n",
      " ", " ", " ", " ", "a", ":", " ", "f", "i", "r", "s", "t", "\n", "\n",
      ">", ">", ">", " ", "f", "(", "1", ")", "\n", "2", "\n">>

Docstrings ==
    {None} \cup {PyStr(ScenarioDoc)}
           \cup { PyStr(join(ls)) : ls \in SeqUpTo(DocLinePool, MaxDocLines) }

Titles == { <<"f">>, <<"M", "y", " ", "<U+00C9>", "l", "s">> }

\* type: 0 (class), 1 (function), and a value that is neither
Types == {0, 1, 2}

\* Blocks offered to unindent.
BlockLinePool == {
    <<>>, <<" ">>, <<" ", " ">>, <<"a">>, <<" ", "a">>, <<" ", " ", "a">>,
    <<"\t", "\f", "a">> }

TocTitles == { <<"I", "n", "t", "r", "o">>, <<"S", "e", "t", "u", "p">>,
               <<"W", "h", "a", "t", " ", "<U+00C9>", "s", "?">> }
TocDepths == 0..2
\* (depth, title) as find_sections builds the pairs, and (title, depth)
TocEntries ==
    { <<PyInt(d), PyStr(x)>> : d \in TocDepths, x \in TocTitles }
        \cup { <<PyStr(x), PyInt(d)>> : d \in TocDepths, x \in TocTitles }

(***************************************************************************)
(* State.                                                                  *)
(***************************************************************************)
VARIABLES
    call,       \* the function called: "doc2md", "_doc2md", "unindent", "make_toc"
    pc,         \* "call", "scan" (in the loop of _doc2md), "join", "done"
    docstr,     \* doc2md: argument docstr
    title,      \* doc2md: argument title
    type,       \* doc2md: argument type (0 class, 1 function)
    sections,   \* make_toc: argument sections
    lines,      \* _doc2md / unindent: argument lines
    i,          \* _doc2md: position of the for loop in lines
    md,         \* _doc2md: local md
    is_code,    \* _doc2md: local is_code
    code,       \* _doc2md: local code (unbound until a block opens)
    language,   \* _doc2md: local language (unbound until a block opens)
    intro,      \* doc2md: local intro
    md_doc,     \* doc2md: local md
    ret         \* what the call returned or raised

vars == <<call, pc, docstr, title, type, sections, lines, i, md, is_code, code,
          language, intro, md_doc, ret>>

scanVars == <<md, is_code, code, language>>
argVars == <<call, docstr, title, type, sections>>

NoArgs ==
    /\ docstr = None /\ title = <<>> /\ type = 0 /\ sections = <<>>

ScanStart ==
    /\ i = 1 /\ md = <<>> /\ is_code = FALSE /\ code = <<>> /\ language = <<>>
    /\ intro = <<>> /\ md_doc = <<>> /\ ret = NoRet

InitDoc2md ==
    /\ call = "doc2md" /\ pc = "call"
    /\ docstr \in Docstrings /\ title \in Titles /\ type \in Types
    /\ sections = <<>> /\ lines = <<>>
    /\ ScanStart

Init_doc2md ==
    /\ call = "_doc2md" /\ pc = "scan"
    /\ lines \in SeqUpTo(LinePool, MaxLines)
    /\ NoArgs /\ ScanStart

InitUnindent ==
    /\ call = "unindent" /\ pc = "call"
    /\ lines \in SeqUpTo(BlockLinePool, MaxBlock)
    /\ NoArgs /\ ScanStart

InitMakeToc ==
    /\ call = "make_toc" /\ pc = "call"
    /\ sections \in SeqUpTo(TocEntries, MaxToc)
    /\ docstr = None /\ title = <<>> /\ type = 0 /\ lines = <<>>
    /\ ScanStart

Init == InitDoc2md \/ Init_doc2md \/ InitUnindent \/ InitMakeToc

(***************************************************************************)
(* doc2md, up to its call of _doc2md.                                      *)
(***************************************************************************)
\* (fault) a missing docstring is converted as an empty one
Doc2mdNone_Silent ==
    /\ call = "doc2md" /\ pc = "call" /\ docstr.t = "None"
    /\ ret' = RetStr(<<>>)
    /\ pc' = "done"
    /\ UNCHANGED <<argVars, lines, i, scanVars, intro, md_doc>>

\* doctrim(None): None has no expandtabs
Doc2mdNone ==
    /\ call = "doc2md" /\ pc = "call" /\ docstr.t = "None"
    /\ ret' = Raise("AttributeError")
    /\ pc' = "done"
    /\ UNCHANGED <<argVars, lines, i, scanVars, intro, md_doc>>

\* "if type == 0: ..." then "if type == 1: ...": any other type leaves title
\* as it is and level unbound
doc2md_title(ttl, typ) ==
    IF typ = 0 THEN LINK_PRE \o lower(ttl) \o LINK_POST \o ttl
    ELSE IF typ = 1 THEN <<"F", "u", "n", "c", "t", "i", "o", "n", ":", " ">> \o ttl
    ELSE ttl

doc2md_level(typ) ==
    IF typ = 0 THEN [bound |-> TRUE, v |-> CLASS_NAME]
    ELSE IF typ = 1 THEN [bound |-> TRUE, v |-> FUNCTION_NAME]
    ELSE [bound |-> FALSE, v |-> 0]

\* make_heading(level, title) with level unbound: UnboundLocalError
Doc2mdUnbound ==
    /\ call = "doc2md" /\ pc = "call" /\ docstr.t = "str"
    /\ ~doc2md_level(type).bound
    /\ ret' = Raise("UnboundLocalError")
    /\ pc' = "done"
    /\ UNCHANGED <<argVars, lines, i, scanVars, intro, md_doc>>

Doc2mdEnter ==
    /\ call = "doc2md" /\ pc = "call" /\ docstr.t = "str"
    /\ doc2md_level(type).bound
    /\ LET text  == doctrim(docstr.s)
           split0 == _get_class_intro(split(text))
       IN  /\ intro' = split0[1]
           /\ lines' = split0[2]
           /\ md_doc' = <<make_heading(doc2md_level(type).v, doc2md_title(title, type)),
                          NEW_LINE>> \o split0[1]
    /\ i' = 1 /\ md' = <<>> /\ is_code' = FALSE
    /\ pc' = "scan"
    /\ UNCHANGED <<argVars, code, language, ret>>

(***************************************************************************)
(* _doc2md: one action per branch of the loop body, and the return.        *)
(***************************************************************************)
InLoop == pc = "scan" /\ i <= Len(lines)

\* (fault) a section label met inside an open block is emitted as a heading
ExtendBlock_LabelEscapes ==
    /\ InLoop /\ is_code /\ lines[i] # <<>>
    /\ IF strip(lines[i]) \in SECTIONS
       THEN /\ md' = Append(md, make_heading(SECTION_NAME, lines[i]))
            /\ code' = code
       ELSE /\ code' = Append(code, lines[i])
            /\ md' = md
    /\ i' = i + 1
    /\ UNCHANGED <<argVars, pc, lines, is_code, language, intro, md_doc, ret>>

ExtendBlock ==
    /\ InLoop /\ is_code /\ lines[i] # <<>>
    /\ code' = Append(code, lines[i])
    /\ i' = i + 1
    /\ UNCHANGED <<argVars, pc, lines, md, is_code, language, intro, md_doc, ret>>

\* (fault) the blank line that closes a block is not emitted
CloseBlock_DropBlank ==
    /\ InLoop /\ is_code /\ lines[i] = <<>>
    /\ is_code' = FALSE
    /\ md' = md \o doc_code_block(code, language)
    /\ i' = i + 1
    /\ UNCHANGED <<argVars, pc, lines, code, language, intro, md_doc, ret>>

CloseBlock ==
    /\ InLoop /\ is_code /\ lines[i] = <<>>
    /\ is_code' = FALSE
    /\ md' = md \o doc_code_block(code, language) \o <<lines[i]>>
    /\ i' = i + 1
    /\ UNCHANGED <<argVars, pc, lines, code, language, intro, md_doc, ret>>

OpenPython ==
    /\ InLoop /\ ~is_code /\ startswith(lstrip(lines[i]), PyPrompt)
    /\ is_code' = TRUE /\ language' = python /\ code' = <<lines[i]>>
    /\ i' = i + 1
    /\ UNCHANGED <<argVars, pc, lines, md, intro, md_doc, ret>>

OpenBash ==
    /\ InLoop /\ ~is_code /\ ~startswith(lstrip(lines[i]), PyPrompt)
    /\ startswith(lstrip(lines[i]), ShPrompt)
    /\ is_code' = TRUE /\ language' = bash /\ code' = <<lines[i]>>
    /\ i' = i + 1
    /\ UNCHANGED <<argVars, pc, lines, md, intro, md_doc, ret>>

IsOpener(line) ==
    startswith(lstrip(line), PyPrompt) \/ startswith(lstrip(line), ShPrompt)

EmitHeading ==
    /\ InLoop /\ ~is_code /\ ~IsOpener(lines[i])
    /\ _is_class_section(lines[i]) > 0
    /\ md' = Append(md, make_heading(_is_class_section(lines[i]), lines[i]))
    /\ i' = i + 1
    /\ UNCHANGED <<argVars, pc, lines, is_code, code, language, intro, md_doc, ret>>

EmitProse ==
    /\ InLoop /\ ~is_code /\ ~IsOpener(lines[i])
    /\ ~(_is_class_section(lines[i]) > 0)
    /\ md' = Append(md, lines[i])
    /\ i' = i + 1
    /\ UNCHANGED <<argVars, pc, lines, is_code, code, language, intro, md_doc, ret>>

\* after the loop: an open block is closed, md is returned
_doc2mdReturn ==
    /\ pc = "scan" /\ i > Len(lines)
    /\ md' = IF is_code THEN md \o doc_code_block(code, language) ELSE md
    /\ IF call = "doc2md"
       THEN pc' = "join" /\ ret' = ret
       ELSE pc' = "done" /\ ret' = RetList(md')
    /\ UNCHANGED <<argVars, lines, i, is_code, code, language, intro, md_doc>>

\* doc2md: md += _doc2md(contents); return "\n".join(md)
Doc2mdReturn ==
    /\ call = "doc2md" /\ pc = "join"
    /\ md_doc' = md_doc \o md
    /\ ret' = RetStr(join(md_doc'))
    /\ pc' = "done"
    /\ UNCHANGED <<argVars, lines, i, scanVars, intro>>

Unindent ==
    /\ call = "unindent" /\ pc = "call"
    /\ ret' = RetList(unindent(lines))
    /\ pc' = "done"
    /\ UNCHANGED <<argVars, lines, i, scanVars, intro, md_doc>>

MakeToc ==
    /\ call = "make_toc" /\ pc = "call"
    /\ ret' = make_toc(sections)
    /\ pc' = "done"
    /\ UNCHANGED <<argVars, lines, i, scanVars, intro, md_doc>>

Next ==
    \/ Doc2mdNone
    \/ Doc2mdUnbound
    \/ Doc2mdEnter
    \/ ExtendBlock
    \/ CloseBlock
    \/ OpenPython
    \/ OpenBash
    \/ EmitHeading
    \/ EmitProse
    \/ _doc2mdReturn
    \/ Doc2mdReturn
    \/ Unindent
    \/ MakeToc

Spec == Init /\ [][Next]_vars

(***************************************************************************)
(* Vocabulary of the properties, written from their statements.            *)
(***************************************************************************)
\* the count of leading whitespace characters of a line
RECURSIVE LeadingWs(_)
LeadingWs(line) ==
    IF line # <<>> /\ IsSpace(Head(line)) THEN 1 + LeadingWs(Tail(line)) ELSE 0

HasNonEmpty(block) == \E k \in 1..Len(block) : block[k] # <<>>

\* the minimum indentation of a block that has a non-empty line
MinIndentOf(block) ==
    Min({ LeadingWs(block[k]) : k \in { j \in 1..Len(block) : block[j] # <<>> } })

\* a prompted line: starts with '>>> ' or '... ', or is exactly '>>>' or '...'
Prompted(line) ==
    \/ Take(line, 4) \in { <<">", ">", ">", " ">>, <<".", ".", ".", " ">> }
    \/ line \in { <<">", ">", ">">>, <<".", ".", ".">> }

ContainsFence(line) ==
    \E k \in 1..(Len(line) - 2) : SubSeq(line, k, k + 2) = Fence

OpeningFences == { Fence \o python, Fence \o bash }

Hashes4 == <<"#", "#", "#", "#", " ">>

ScanOutputReady == call \in {"_doc2md", "doc2md"} /\ pc \in {"join", "done"}

\* A step of the scan that emits a code block: the block was open, md grew.
BlockEmitted == pc = "scan" /\ is_code /\ Len(md') > Len(md)

\* the lines between the fences of the block that step emits
EmittedInner == SubSeq(md', Len(md) + 2, Len(md) + 1 + Len(code))

(***************************************************************************)
(* C1                                                                      *)
(***************************************************************************)
RECURSIVE BalancedFrom(_, _)
BalancedFrom(out, open) ==
    IF out = <<>> THEN ~open
    ELSE IF Head(out) \in OpeningFences THEN ~open /\ BalancedFrom(Tail(out), TRUE)
    ELSE IF Head(out) = Fence THEN open /\ BalancedFrom(Tail(out), FALSE)
    ELSE BalancedFrom(Tail(out), open)

\* C1: when no body line contains a triple backtick, the fence lines of the
\* scan's output are balanced: each opening fence is followed by exactly one
\* closing fence before the next opening fence and before the end of the
\* output, also when the input ends inside an open code block.
C1_FencesBalanced ==
    (ScanOutputReady /\ \A k \in 1..Len(lines) : ~ContainsFence(lines[k]))
        => BalancedFrom(md, FALSE)

\* two blocks, the second one still open when the input ends
C1_Witness ==
    /\ call = "_doc2md" /\ pc = "done" /\ is_code
    /\ \A k \in 1..Len(lines) : ~ContainsFence(lines[k])
    /\ Cardinality({ k \in 1..Len(md) : md[k] \in OpeningFences }) = 2
    /\ md[Len(md)] = Fence

(***************************************************************************)
(* C2                                                                      *)
(***************************************************************************)
IsScenario ==
    /\ call = "doc2md" /\ pc = "done"
    /\ docstr = PyStr(ScenarioDoc) /\ title = <<"f">> /\ type = 1

ScenarioTitle == <<"#", "#", "#", " ", "F", "u", "n", "c", "t", "i", "o", "n", ":", " ", "f">>
ScenarioProse == <<"D", "o", "e", "s", " ", "X", ".">>
ScenarioHeading == <<"#", "#", "#", "#", " ", "A", "r", "g", "s", ":">>
ScenarioArg == <<" ", " ", " ", " ", "a", ":", " ", "f", "i", "r", "s", "t">>
ScenarioCall == <<"f", "(", "1", ")">>

\* C2 as stated: the document starts with '### Function: f', then 'Does X.',
\* the heading '#### Args:', the line 'a: first' unchanged, and a python
\* fenced block containing 'f(1)' without its '>>> ' prompt.
C2_AsStated ==
    IsScenario =>
        LET out == split(ret.text)
        IN  /\ ret.kind = "str"
            /\ out[1] = ScenarioTitle
            /\ \E a, b, c, d, e, f \in 1..Len(out) :
                  /\ a < b /\ b < c /\ c < d /\ d < e /\ e < f
                  /\ out[a] = ScenarioProse
                  /\ out[b] = ScenarioHeading
                  /\ out[c] = ScenarioArg
                  /\ out[d] = Fence \o python
                  /\ out[e] = ScenarioCall
                  /\ out[f] = Fence

\* C2, amended: the same document, whose python block holds the captured
\* lines '>>> f(1)' and '2' as they are: the prompt is kept, because the line
\* '2' is not prompted and the block is therefore not pure-prompt.
C2_Scenario ==
    IsScenario =>
        /\ ret.kind = "str"
        /\ split(ret.text) =
              << ScenarioTitle, <<>>, ScenarioProse, <<>>, ScenarioHeading,
                 ScenarioArg, <<>>, Fence \o python,
                 PyPrompt \o ScenarioCall, <<"2">>, Fence >>

C2_Witness == IsScenario /\ ret.kind = "str" /\ Len(ret.text) > 0

(***************************************************************************)
(* C3                                                                      *)
(***************************************************************************)
\* C3 as stated: a python block is stripped of the first 4 characters of
\* every line iff every captured line is prompted; otherwise the lines between
\* the fences are the captured lines verbatim; a bash block is never stripped.
C3_AsStated ==
    [][BlockEmitted =>
          /\ language = python =>
                IF \A k \in 1..Len(code) : Prompted(code[k])
                THEN EmittedInner = [k \in 1..Len(code) |-> Drop(code[k], 4)]
                ELSE EmittedInner = code
          /\ language = bash => EmittedInner = code]_vars

\* C3, amended: with U the captured lines of a python block less the block's
\* common indentation, the first 4 characters of every line of U are stripped
\* iff every line of U is prompted; otherwise the lines between the fences are
\* U, prompts kept (the captured lines verbatim when the block's minimum
\* indentation is 0).  A bash block is fenced verbatim.
C3_PromptStripping ==
    [][BlockEmitted =>
          LET k0 == MinIndentOf(code)
              U  == [k \in 1..Len(code) |-> Drop(code[k], k0)]
          IN  /\ md'[Len(md) + 1] = Fence \o language
              /\ md'[Len(md) + 2 + Len(code)] = Fence
              /\ language = python =>
                    IF \A k \in 1..Len(U) : Prompted(U[k])
                    THEN EmittedInner = [k \in 1..Len(U) |-> Drop(U[k], 4)]
                    ELSE EmittedInner = U
              /\ language = bash => EmittedInner = code
              /\ (language = python /\ k0 = 0 /\ \E k \in 1..Len(code) : ~Prompted(code[k]))
                    => EmittedInner = code]_vars

\* an indented python block with unprompted commentary has been fenced
C3_Witness ==
    /\ call = "_doc2md" /\ pc = "done" /\ is_code /\ language = python
    /\ MinIndentOf(code) > 0
    /\ \E k \in 1..Len(code) : ~Prompted(Drop(code[k], MinIndentOf(code)))
    /\ md[Len(md)] = Fence

(***************************************************************************)
(* C4                                                                      *)
(***************************************************************************)
\* C4: a line scanned while no block is open, and that opens none, is emitted
\* as '#### ' followed by the line iff its stripped content is exactly one of
\* the six section labels (case-sensitive); any other line passes unchanged.
C4_ExactLabel ==
    [][(pc = "scan" /\ i <= Len(lines) /\ ~is_code
            /\ Take(lstrip(lines[i]), 4) # <<">", ">", ">", " ">>
            /\ Take(lstrip(lines[i]), 2) # <<"$", " ">>) =>
          /\ (strip(lines[i]) \in SECTIONS) <=> (md' = Append(md, Hashes4 \o lines[i]))
          /\ (strip(lines[i]) \notin SECTIONS) <=> (md' = Append(md, lines[i]))]_vars

\* a padded label was promoted; 'Args: x' and 'args:' passed as prose
C4_Witness ==
    /\ call = "_doc2md" /\ pc = "done"
    /\ \E k \in 1..Len(md) : md[k] = Hashes4 \o <<"\f", "N", "o", "t", "e", "s", ":", " ">>
    /\ \E k \in 1..Len(md) : md[k] = <<"A", "r", "g", "s", ":", " ", "x">>
    /\ \E k \in 1..Len(md) : md[k] = <<"a", "r", "g", "s", ":">>

(***************************************************************************)
(* C5                                                                      *)
(***************************************************************************)
DepthTitlePairs ==
    \A k \in 1..Len(sections) : sections[k][1].t = "int" /\ sections[k][2].t = "str"

Slug(x) ==
    LET low == lower(x)
    IN  [k \in 1..Len(low) |-> IF low[k] = " " THEN "-" ELSE low[k]]

RECURSIVE WithoutQuestionMarks(_)
WithoutQuestionMarks(x) ==
    IF x = <<>> THEN <<>>
    ELSE IF Head(x) = "?" THEN WithoutQuestionMarks(Tail(x))
    ELSE <<Head(x)>> \o WithoutQuestionMarks(Tail(x))

\* C5: given (depth, title) pairs, make_toc returns one bullet per entry in
\* input order, indented by depth levels of four spaces, '- [title](#slug)'.
C5_TocOfDepthTitlePairs ==
    (call = "make_toc" /\ pc = "done" /\ sections # <<>> /\ DepthTitlePairs) =>
        /\ ret.kind = "str"
        /\ LET out == split(ret.text)
           IN  /\ Len(out) = Len(sections)
               /\ \A k \in 1..Len(sections) :
                     out[k] = repeat(<<" ", " ", " ", " ">>, sections[k][1].n)
                                \o <<"-", " ", "[">> \o sections[k][2].s
                                \o <<"]", "(", "#">>
                                \o WithoutQuestionMarks(Slug(sections[k][2].s))
                                \o <<")">>

(***************************************************************************)
(* C6                                                                      *)
(***************************************************************************)
\* C6 as stated: doc2md fails with EmptyInputError iff docstr is None, and
\* returns a Markdown fragment for every present string.
C6_AsStated ==
    (call = "doc2md" /\ pc = "done" /\ type \in {0, 1}) =>
        /\ (ret.kind = "error" /\ ret.err = "EmptyInputError") <=> (docstr = None)
        /\ docstr # None => ret.kind = "str"

\* C6, amended: doc2md fails iff docstr is None, and the failure is the
\* AttributeError of the primary trim (there is no EmptyInputError); for every
\* present string and either kind the call passes through no error and what it
\* returns is a string.
C6_FailsOnlyOnNone ==
    (call = "doc2md" /\ type \in {0, 1}) =>
        /\ (ret.kind = "error") <=> (docstr = None /\ pc = "done")
        /\ ret.kind = "error" => ret.err = "AttributeError"
        /\ (pc = "done" /\ docstr # None) => ret.kind = "str"

C6_Witness ==
    /\ call = "doc2md" /\ pc = "done" /\ type \in {0, 1}
    /\ docstr = None /\ ret.kind = "error"

(***************************************************************************)
(* C7                                                                      *)
(***************************************************************************)
\* C7: while a block is open every non-empty line, whatever its form, is
\* appended to the buffer, emits nothing and leaves the language tag; the first
\* empty line closes the block, and the whole fenced block followed by that
\* blank line is appended to the output; the output only ever grows at its end.
C7_OpenBlockPriority ==
    [][(pc = "scan" /\ i <= Len(lines)) =>
          /\ SubSeq(md', 1, Len(md)) = md
          /\ (is_code /\ lines[i] # <<>>) =>
                /\ code' = Append(code, lines[i])
                /\ md' = md /\ language' = language /\ is_code'
          /\ (is_code /\ lines[i] = <<>>) =>
                /\ ~is_code'
                /\ Len(md') = Len(md) + Len(code) + 3
                /\ md'[Len(md) + 1] = Fence \o language
                /\ md'[Len(md) + Len(code) + 2] = Fence
                /\ md'[Len(md')] = <<>>]_vars

\* a section label and an opener were swallowed by an open block, then closed
C7_Witness ==
    /\ call = "_doc2md" /\ ~is_code /\ i > 3
    /\ startswith(lines[1], PyPrompt)
    /\ strip(lines[2]) \in SECTIONS \/ startswith(lines[2], ShPrompt)
    /\ lines[3] = <<>>
    /\ Len(md) = 5 /\ md[4] = Fence /\ md[5] = <<>>

(***************************************************************************)
(* C8                                                                      *)
(***************************************************************************)
\* C8: intro followed by contents is the trimmed line sequence; no intro line
\* is a section label once stripped; contents is empty or begins with a label;
\* the intro lines are emitted verbatim right after the title and its blank
\* line, and without any label nothing else is emitted.
C8_IntroSplit ==
    (call = "doc2md" /\ pc # "call" /\ docstr # None /\ type \in {0, 1}) =>
        /\ intro \o lines = split(doctrim(docstr.s))
        /\ \A k \in 1..Len(intro) : strip(intro[k]) \notin SECTIONS
        /\ lines = <<>> \/ strip(lines[1]) \in SECTIONS
        /\ Len(md_doc) >= 2 + Len(intro)
        /\ SubSeq(md_doc, 3, 2 + Len(intro)) = intro
        /\ pc = "done" =>
              /\ ret.text = join(md_doc)
              /\ lines = <<>> => Len(md_doc) = 2 + Len(intro)

\* an opener line sits in the intro of a docstring that has a label
C8_Witness ==
    /\ call = "doc2md" /\ pc = "done" /\ docstr # None /\ type \in {0, 1}
    /\ lines # <<>>
    /\ \E k \in 1..Len(intro) : startswith(lstrip(intro[k]), PyPrompt)
    /\ \A k \in 1..Len(md_doc) : md_doc[k] \notin OpeningFences

(***************************************************************************)
(* C9                                                                      *)
(***************************************************************************)
\* out is src itself, src behind '#### ', or src less block indentation
\* and/or less its 4-character prompt
Rendered(src, out) ==
    \/ out = src
    \/ out = Hashes4 \o src
    \/ \E k \in 0..LeadingWs(src) :
          \/ out = Drop(src, k)
          \/ Prompted(Drop(src, k)) /\ out = Drop(Drop(src, k), 4)

\* out less some of its fence lines is src rendered line by line, in order
RECURSIVE MatchesLessFences(_, _)
MatchesLessFences(out, src) ==
    IF out = <<>> THEN src = <<>>
    ELSE \/ /\ Head(out) \in OpeningFences \cup {Fence}
            /\ MatchesLessFences(Tail(out), src)
         \/ /\ src # <<>>
            /\ Rendered(Head(src), Head(out))
            /\ MatchesLessFences(Tail(out), Tail(src))

\* C9: the scan drops and reorders nothing: its output less the fence lines
\* has one line per input line, in input order, each the input line itself,
\* prefixed with '#### ', or less block indentation and/or its prompt; also
\* when the input ends inside an open block.
C9_NothingDropped ==
    ScanOutputReady =>
        MatchesLessFences(md, lines)

\* the input ended inside an open, indented, pure-prompt block that follows a
\* promoted label: all three renderings occur
C9_Witness ==
    /\ call = "_doc2md" /\ pc = "done" /\ is_code /\ language = python
    /\ \A k \in 1..Len(lines) : ~ContainsFence(lines[k])
    /\ MinIndentOf(code) > 0
    /\ \A k \in 1..Len(code) : Prompted(Drop(code[k], MinIndentOf(code)))
    /\ \E k \in 1..Len(md) : startswith(md[k], Hashes4)
    /\ Len(md) = Len(lines) + 2

(***************************************************************************)
(* C10                                                                     *)
(***************************************************************************)
\* C10 as stated: with k the minimum indentation of the block, every returned
\* line has exactly k fewer leading characters than its source line and the
\* returned block has minimum indentation 0; a block without non-empty line is
\* returned unchanged.
C10_AsStated ==
    (call = "unindent" /\ pc = "done") =>
        /\ ret.kind = "list"
        /\ Len(ret.lines) = Len(lines)
        /\ IF HasNonEmpty(lines)
           THEN /\ \A k \in 1..Len(lines) :
                      lines[k] # <<>> =>
                          /\ Len(ret.lines[k]) = Len(lines[k]) - MinIndentOf(lines)
                          /\ ret.lines[k] = Drop(lines[k], MinIndentOf(lines))
                /\ HasNonEmpty(ret.lines) => MinIndentOf(ret.lines) = 0
           ELSE ret.lines = lines

\* C10, amended: every returned line is its source line less its first k
\* characters: a non-empty line has exactly k fewer leading characters, an
\* empty line stays empty; the returned block has minimum indentation 0 when
\* some line of indentation k has non-whitespace content (when every such line
\* is whitespace only, those lines come back empty and the others keep an
\* indentation above 0); a block without non-empty line is returned unchanged.
C10_BlockTrim ==
    (call = "unindent" /\ pc = "done") =>
        /\ ret.kind = "list"
        /\ Len(ret.lines) = Len(lines)
        /\ IF HasNonEmpty(lines)
           THEN LET k0 == MinIndentOf(lines)
                IN  /\ \A k \in 1..Len(lines) :
                          IF lines[k] = <<>> THEN ret.lines[k] = <<>>
                          ELSE /\ Len(ret.lines[k]) = Len(lines[k]) - k0
                               /\ ret.lines[k] = Drop(lines[k], k0)
                    /\ (\E k \in 1..Len(lines) :
                            LeadingWs(lines[k]) = k0 /\ Len(lines[k]) > k0)
                          => (HasNonEmpty(ret.lines) /\ MinIndentOf(ret.lines) = 0)
                    /\ (\A k \in 1..Len(lines) :
                            (lines[k] # <<>> /\ LeadingWs(lines[k]) = k0)
                                => Len(lines[k]) = k0)
                          => \A k \in 1..Len(ret.lines) :
                                ret.lines[k] # <<>> => LeadingWs(ret.lines[k]) > 0
           ELSE ret.lines = lines

\* an indented block holding an empty line has been trimmed
C10_Witness ==
    /\ call = "unindent" /\ pc = "done" /\ ret.kind = "list"
    /\ HasNonEmpty(lines) /\ MinIndentOf(lines) > 0
    /\ \E k \in 1..Len(lines) : lines[k] = <<>>
    /\ HasNonEmpty(ret.lines) /\ MinIndentOf(ret.lines) = 0

====
